---- MODULE Spec2Model ----
(***************************************************************************)
(* Model of the EXIF aggregation engine of ImageAnalyse (src/core.py):     *)
(* the value normalizers, try_parse_date, the per-photo loop of            *)
(* process_folder, the histogram walk of generate_chart, the hourly        *)
(* averages of generate_hourly_settings_chart and the path check and the   *)
(* summary statistics of analyze_folder.                                   *)
(*                                                                         *)
(* Representation                                                          *)
(*  - a text is a sequence of one-character strings ("NUL" is \x00);       *)
(*  - a raw tag value is a record [tag, n, d, nn, dn, s]:                  *)
(*      "absent" the key is not in the mapping                             *)
(*      "int"    the integer n                                             *)
(*      "float"  the finite float whose exact value is n/d (d > 0)         *)
(*      "nan"    the float not-a-number                                    *)
(*      "text"   the str s                                                 *)
(*      "pair"   the tuple (n, d); nn / dn say that the numerator /        *)
(*               denominator is float('nan') instead of the integer        *)
(*  - a normalizer returns [ok |-> FALSE, v |-> 0] for None and            *)
(*    [ok |-> TRUE, v |-> x] for a value; a focal length and an ISO are    *)
(*    integers, an aperture is counted in tenths (2.8 is 28) and a         *)
(*    shutter speed in ten-thousandths of a second (0.004 is 40);          *)
(*  - a float produced by `/` in analyze_folder is the reduced fraction    *)
(*    <<numerator, denominator>>.                                          *)
(***************************************************************************)
EXTENDS Integers, Sequences, FiniteSets, TLC

\* ---------------------------------------------------------------- bounds
\* photos in the folder of the aggregation specification Spec
MaxPhotos == 3
\* photos in the folder of the per-field specification SpecFields
MaxFieldPhotos == 1
\* photos in the folder of the histogram specification SpecChart
MaxChartPhotos == 6

\* ------------------------------------------------------- program constants
ISO_MIN == 50
ISO_MAX == 512000
APERTURE_SCALE == 10
SHUTTER_SCALE == 10000
HOURS_PER_DAY == 24

\* --------------------------------------------------------------- helpers
None == [ok |-> FALSE, v |-> 0]
Some(x) == [ok |-> TRUE, v |-> x]

Range(s) == {s[i] : i \in DOMAIN s}

Abs(x) == IF x < 0 THEN -x ELSE x

RECURSIVE Gcd(_, _)
Gcd(a, b) == IF b = 0 THEN a ELSE Gcd(b, a % b)

\* the float a / b (b > 0), as a reduced fraction
Frac(a, b) == LET g == Gcd(Abs(a), b) IN <<a \div g, b \div g>>

RECURSIVE SumOver(_, _)
SumOver(f, S) ==
  IF S = {} THEN 0
  ELSE LET k == CHOOSE x \in S : TRUE IN f[k] + SumOver(f, S \ {k})

\* sum(d.values())
SumValues(f) == SumOver(f, DOMAIN f)

\* d[k] = d.get(k, 0) + 1
Inc(f, k) ==
  IF k \in DOMAIN f THEN [f EXCEPT ![k] = @ + 1]
  ELSE [x \in DOMAIN f \cup {k} |-> IF x = k THEN 1 ELSE f[x]]

EmptyMap == [x \in {} |-> 0]

\* ------------------------------------------------------------ raw values
Absent == [tag |-> "absent", n |-> 0, d |-> 0, nn |-> FALSE, dn |-> FALSE, s |-> <<>>]
IntV(x) == [Absent EXCEPT !.tag = "int", !.n = x]
FloatV(x, y) == [Absent EXCEPT !.tag = "float", !.n = x, !.d = y]
NaNV == [Absent EXCEPT !.tag = "nan"]
TextV(t) == [Absent EXCEPT !.tag = "text", !.s = t]
PairV(x, y) == [Absent EXCEPT !.tag = "pair", !.n = x, !.d = y]
PairNaNNum(y) == [Absent EXCEPT !.tag = "pair", !.nn = TRUE, !.d = y]
PairNaNDen(x) == [Absent EXCEPT !.tag = "pair", !.n = x, !.dn = TRUE]

\* ----------------------------------------------------------------- texts
DigitChars == <<"0", "1", "2", "3", "4", "5", "6", "7", "8", "9">>
IsDigit(c) == c \in Range(DigitChars)
DigitVal(c) ==
  CASE c = "0" -> 0 [] c = "1" -> 1 [] c = "2" -> 2 [] c = "3" -> 3 [] c = "4" -> 4
    [] c = "5" -> 5 [] c = "6" -> 6 [] c = "7" -> 7 [] c = "8" -> 8 [] c = "9" -> 9
IsSpace(c) == c = " "

\* s[i..j]
Slice(s, i, j) == [k \in 1..(j - i + 1) |-> s[i + k - 1]]

\* str.replace('\x00', '')
RECURSIVE RemoveNul(_)
RemoveNul(s) ==
  IF s = <<>> THEN <<>>
  ELSE IF Head(s) = "NUL" THEN RemoveNul(Tail(s))
  ELSE <<Head(s)>> \o RemoveNul(Tail(s))

\* str.strip()
RECURSIVE LStrip(_)
LStrip(s) == IF s # <<>> /\ IsSpace(Head(s)) THEN LStrip(Tail(s)) ELSE s
RECURSIVE RStrip(_)
RStrip(s) ==
  IF s # <<>> /\ IsSpace(s[Len(s)]) THEN RStrip(Slice(s, 1, Len(s) - 1)) ELSE s
Strip(s) == RStrip(LStrip(s))

\* the value of a run of decimal digits
RECURSIVE DigitsValue(_, _)
DigitsValue(s, acc) ==
  IF s = <<>> THEN acc ELSE DigitsValue(Tail(s), 10 * acc + DigitVal(Head(s)))

AllDigits(s) == \A i \in DOMAIN s : IsDigit(s[i])

RECURSIVE Pow10(_)
Pow10(k) == IF k = 0 THEN 1 ELSE 10 * Pow10(k - 1)

\* the sign of a numeral and the numeral without it
SignOf(s) == IF s # <<>> /\ s[1] = "-" THEN -1 ELSE 1
Unsigned(s) == IF s # <<>> /\ s[1] \in {"-", "+"} THEN Tail(s) ELSE s

\* int(text): surrounding whitespace, an optional sign, decimal digits;
\* anything else is a ValueError (ok = FALSE).  Digit-group underscores are
\* not among the modelled texts.
ParseInt(t) ==
  LET u == Unsigned(Strip(t)) IN
  IF u # <<>> /\ AllDigits(u)
  THEN Some(SignOf(Strip(t)) * DigitsValue(u, 0))
  ELSE None

\* float(text): surrounding whitespace, an optional sign, digits with an
\* optional decimal point; the value is n / d.  Anything else is a ValueError
\* (ok = FALSE).  Exponents, "nan" and "inf" are not among the modelled texts.
ParseFloat(t) ==
  LET u == Unsigned(Strip(t))
      sg == SignOf(Strip(t))
      dots == {i \in DOMAIN u : u[i] = "."}
  IN IF dots = {}
     THEN IF u # <<>> /\ AllDigits(u)
          THEN [ok |-> TRUE, n |-> sg * DigitsValue(u, 0), d |-> 1]
          ELSE [ok |-> FALSE, n |-> 0, d |-> 1]
     ELSE LET p == CHOOSE i \in dots : \A j \in dots : i <= j
              ip == Slice(u, 1, p - 1)
              fp == Slice(u, p + 1, Len(u))
          IN IF AllDigits(ip) /\ AllDigits(fp) /\ Len(ip) + Len(fp) > 0
             THEN [ok |-> TRUE, n |-> sg * DigitsValue(ip \o fp, 0), d |-> Pow10(Len(fp))]
             ELSE [ok |-> FALSE, n |-> 0, d |-> 1]

\* ------------------------------------------------------------- rounding
\* RoundHalfEven truncating instead of rounding
RoundDown(n, d) == IF d < 0 THEN (-n) \div (-d) ELSE n \div d

\* round(n / d) for d # 0: the nearest integer, a tie going to the even one
\* (Python's round on a float; the quotients of the modelled inputs that
\* are ties are exact floats).
RoundHalfEven(n, d) ==
  LET a == IF d < 0 THEN -n ELSE n
      b == Abs(d)
      q == a \div b
      r == a % b
  IN IF 2 * r < b THEN q
     ELSE IF 2 * r > b THEN q + 1
     ELSE IF q % 2 = 0 THEN q ELSE q + 1

\* round(n / d, k) counted in units of 1/scale, scale = 10^k
RoundScaled(n, d, scale) == RoundHalfEven(n * scale, d)

\* int(n / d): truncation towards zero
Trunc(n, d) == IF n >= 0 THEN n \div d ELSE -((-n) \div d)

\* ----------------------------------------------------------- normalizers
\* float(x) for a scalar x: [ok, n, d] with value n / d, ok = FALSE when
\* float() raises
FloatOf(raw) ==
  CASE raw.tag = "int" -> [ok |-> TRUE, n |-> raw.n, d |-> 1]
    [] raw.tag = "float" -> [ok |-> TRUE, n |-> raw.n, d |-> raw.d]
    [] raw.tag = "text" -> ParseFloat(raw.s)
    [] OTHER -> [ok |-> FALSE, n |-> 0, d |-> 1]

process_focal_length(focal_length) ==
  IF focal_length.tag = "nan" THEN None
  ELSE IF focal_length.tag = "pair"
  THEN IF focal_length.nn \/ focal_length.dn THEN None
       ELSE IF focal_length.d = 0 THEN None
       ELSE Some(RoundHalfEven(focal_length.n, focal_length.d))
  ELSE LET f == FloatOf(focal_length) IN
       IF f.ok THEN Some(RoundHalfEven(f.n, f.d)) ELSE None

\* process_iso_value with the bounds excluded
process_iso_value_exclusive(iso_value) ==
  LET v == IF iso_value.tag \in {"int", "pair"} /\ ~iso_value.nn THEN Some(iso_value.n)
           ELSE IF iso_value.tag = "float" THEN Some(Trunc(iso_value.n, iso_value.d))
           ELSE IF iso_value.tag = "text" THEN ParseInt(iso_value.s)
           ELSE None
  IN IF v.ok /\ ISO_MIN < v.v /\ v.v < ISO_MAX THEN v ELSE None

process_iso_value(iso_value) ==
  LET first == IF iso_value.tag = "pair"
               THEN IF iso_value.nn THEN NaNV ELSE IntV(iso_value.n)
               ELSE IF iso_value.tag = "text"
               THEN LET p == ParseInt(iso_value.s) IN
                    IF p.ok THEN IntV(p.v) ELSE Absent
               ELSE iso_value
      asInt == CASE first.tag = "int" -> Some(first.n)
                 [] first.tag = "float" -> Some(Trunc(first.n, first.d))
                 [] OTHER -> None
  IN IF asInt.ok /\ ISO_MIN <= asInt.v /\ asInt.v <= ISO_MAX THEN asInt ELSE None

process_aperture(aperture) ==
  IF aperture.tag = "nan" THEN None
  ELSE IF aperture.tag = "pair"
  THEN IF aperture.nn \/ aperture.dn THEN None
       ELSE IF aperture.d = 0 THEN None
       ELSE Some(RoundScaled(aperture.n, aperture.d, APERTURE_SCALE))
  ELSE LET f == FloatOf(aperture) IN
       IF f.ok THEN Some(RoundScaled(f.n, f.d, APERTURE_SCALE)) ELSE None

process_shutter_speed(shutter_speed) ==
  IF shutter_speed.tag = "nan" THEN None
  ELSE IF shutter_speed.tag = "pair"
  THEN IF shutter_speed.nn \/ shutter_speed.dn THEN None
       ELSE IF shutter_speed.d = 0 THEN None
       ELSE Some(RoundScaled(shutter_speed.n, shutter_speed.d, SHUTTER_SCALE))
  ELSE LET f == FloatOf(shutter_speed) IN
       IF f.ok THEN Some(RoundScaled(f.n, f.d, SHUTTER_SCALE)) ELSE None

\* ------------------------------------------------------ datetime.strptime
\* A format is a sequence of tokens: a directive "%Y" "%m" "%d" "%H" "%M" "%S"
\* or a literal character (a space stands for the regex \s+).
date_formats ==
  << <<"%Y", ":", "%m", ":", "%d", " ", "%H", ":", "%M", ":", "%S">>,
     <<"%Y", "-", "%m", "-", "%d", " ", "%H", ":", "%M", ":", "%S">>,
     <<"%Y", "%m", "%d", "_", "%H", "%M", "%S">>,
     <<"%Y", "_", "%m", "_", "%d", " ", "%H", ":", "%M", ":", "%S">>,
     <<"%Y", "%m", "%d", "%H", "%M", "%S">> >>

STRICT_FORMAT == date_formats[1]

Directives == {"%Y", "%m", "%d", "%H", "%M", "%S"}

NoFields == [k \in Directives |-> 0]
NoMatch == [ok |-> FALSE, end |-> 0, f |-> NoFields]

\* the two-digit number at s[i], s[i+1], or -1
Two(s, i) ==
  IF i + 1 <= Len(s) /\ IsDigit(s[i]) /\ IsDigit(s[i + 1])
  THEN 10 * DigitVal(s[i]) + DigitVal(s[i + 1]) ELSE -1
\* the one-digit number at s[i], or -1
One(s, i) == IF i <= Len(s) /\ IsDigit(s[i]) THEN DigitVal(s[i]) ELSE -1

\* The alternatives of a directive's regex that match at s[i], in the order
\* the regex tries them, each as <<width, value>>:
\*   %Y \d\d\d\d                          %m 1[0-2]|0[1-9]|[1-9]
\*   %d 3[0-1]|[1-2]\d|0[1-9]|[1-9]| [1-9]
\*   %H 2[0-3]|[0-1]\d|\d    %M [0-5]\d|\d    %S 6[0-1]|[0-5]\d|\d
Alternatives(tok, s, i) ==
  LET t == Two(s, i)
      o == One(s, i)
      two(lo, hi) == IF t >= lo /\ t <= hi THEN << <<2, t>> >> ELSE <<>>
      one(lo) == IF o >= lo THEN << <<1, o>> >> ELSE <<>>
  IN CASE tok = "%Y" ->
            IF Two(s, i) >= 0 /\ Two(s, i + 2) >= 0
            THEN << <<4, 100 * Two(s, i) + Two(s, i + 2)>> >> ELSE <<>>
       [] tok = "%m" -> two(1, 12) \o one(1)
       [] tok = "%d" ->
            two(1, 31) \o one(1) \o
            (IF i + 1 <= Len(s) /\ s[i] = " " /\ One(s, i + 1) >= 1
             THEN << <<2, One(s, i + 1)>> >> ELSE <<>>)
       [] tok = "%H" -> two(0, 23) \o one(0)
       [] tok = "%M" -> two(0, 59) \o one(0)
       [] tok = "%S" -> two(0, 61) \o one(0)

\* the number of whitespace characters from s[i] on
RECURSIVE SpaceRun(_, _)
SpaceRun(s, i) == IF i <= Len(s) /\ IsSpace(s[i]) THEN 1 + SpaceRun(s, i + 1) ELSE 0

\* re.match of the format's regex at s[i], from token j on: the first match
\* in the regex's backtracking order.  \s+ takes the whole run of whitespace:
\* in every format the token after the space is %H, which starts with a digit.
RECURSIVE MatchFrom(_, _, _, _, _)
RECURSIVE TryAlternatives(_, _, _, _, _, _, _)
MatchFrom(s, i, fmt, j, acc) ==
  IF j > Len(fmt) THEN [ok |-> TRUE, end |-> i, f |-> acc]
  ELSE IF fmt[j] \in Directives
  THEN TryAlternatives(s, i, fmt, j, acc, Alternatives(fmt[j], s, i), 1)
  ELSE IF fmt[j] = " "
  THEN IF SpaceRun(s, i) >= 1
       THEN MatchFrom(s, i + SpaceRun(s, i), fmt, j + 1, acc) ELSE NoMatch
  ELSE IF i <= Len(s) /\ s[i] = fmt[j]
       THEN MatchFrom(s, i + 1, fmt, j + 1, acc) ELSE NoMatch
TryAlternatives(s, i, fmt, j, acc, alts, k) ==
  IF k > Len(alts) THEN NoMatch
  ELSE LET r == MatchFrom(s, i + alts[k][1], fmt, j + 1,
                          [acc EXCEPT ![fmt[j]] = alts[k][2]])
       IN IF r.ok THEN r ELSE TryAlternatives(s, i, fmt, j, acc, alts, k + 1)

IsLeap(y) == (y % 4 = 0 /\ y % 100 # 0) \/ y % 400 = 0
DaysInMonth(y, m) ==
  IF m = 2 THEN (IF IsLeap(y) THEN 29 ELSE 28)
  ELSE IF m \in {4, 6, 9, 11} THEN 30 ELSE 31

NoDate == [ok |-> FALSE, date |-> <<0, 0, 0>>, hour |-> 0, minute |-> 0, second |-> 0]

\* datetime.strptime(text, fmt) for a str: ok = FALSE is a ValueError (no
\* match, unconverted data remains, or a date/time out of range)
strptime(text, fmt) ==
  LET r == MatchFrom(text, 1, fmt, 1, NoFields) IN
  IF r.ok /\ r.end = Len(text) + 1
     /\ r.f["%Y"] >= 1
     /\ r.f["%d"] <= DaysInMonth(r.f["%Y"], r.f["%m"])
     /\ r.f["%S"] <= 59
  THEN [ok |-> TRUE, date |-> <<r.f["%Y"], r.f["%m"], r.f["%d"]>>,
        hour |-> r.f["%H"], minute |-> r.f["%M"], second |-> r.f["%S"]]
  ELSE NoDate

\* for fmt in date_formats: try strptime, continue on ValueError
RECURSIVE FirstFormat(_, _, _)
FirstFormat(text, formats, k) ==
  IF k > Len(formats) THEN NoDate
  ELSE LET r == strptime(text, formats[k]) IN
       IF r.ok THEN r ELSE FirstFormat(text, formats, k + 1)

\* try_parse_date without the cleaning of the text
try_parse_date_uncleaned(date_string) ==
  IF date_string.tag # "text" \/ date_string.s = <<>> THEN NoDate
  ELSE FirstFormat(date_string.s, date_formats, 1)

try_parse_date(date_string) ==
  IF date_string.tag # "text" \/ date_string.s = <<>> THEN NoDate
  ELSE FirstFormat(Strip(RemoveNul(date_string.s)), date_formats, 1)

\* ------------------------------------------------------------------ state
VARIABLES
  folder_path,         \* the path given to analyze_folder: "missing"
                       \* (os.path.exists is false), "unreadable" (it
                       \* exists, but os.walk can list nothing in it) or
                       \* "readable"
  pc,                  \* where analyze_folder is: "start", "loop" (the photo
                       \* loop of process_folder), "done" (returned the
                       \* results), "error" (returned the path error),
                       \* "raised" (an exception left process_folder),
                       \* "chart_raised" (an exception left the chart
                       \* generation)
  records,             \* the mappings get_exif_data returned so far, in order
  focal_lengths, dates, hours, iso, apertures, shutter_speeds, hourly_settings,
  output_dir,          \* the output directory was created
  chart_paths,         \* the chart files of the returned chart_paths
  saved_charts,        \* the chart files saved in the output directory
  split_point,         \* the population midpoint drawn on the focal chart
  total_photos, focal_length_median, daily_average

vars == <<folder_path, pc, records, focal_lengths, dates, hours, iso, apertures,
          shutter_speeds, hourly_settings, output_dir, chart_paths,
          saved_charts, split_point,
          total_photos, focal_length_median, daily_average>>

\* the mapping get_exif_data returns, restricted to the five tags read
Exif(fl, dto, isr, fn, et) ==
  [FocalLength |-> fl, DateTimeOriginal |-> dto, ISOSpeedRatings |-> isr,
   FNumber |-> fn, ExposureTime |-> et]

\* {}: the photo has no metadata or could not be read
EmptyMapping == Exif(Absent, Absent, Absent, Absent, Absent)

Has(exif_data, key) == exif_data[key].tag # "absent"

\* `if value:` on a normalizer's result: neither None nor zero
Truthy(r) == r.ok /\ r.v # 0

EmptyHourly ==
  [h \in 0..(HOURS_PER_DAY - 1) |->
     [apertures |-> <<>>, shutter_speeds |-> <<>>, isos |-> <<>>]]

\* the aggregation structures process_folder starts with
EmptyAggregate ==
  [focal_lengths |-> <<>>, dates |-> EmptyMap, hours |-> EmptyMap,
   iso |-> EmptyMap, apertures |-> EmptyMap, shutter_speeds |-> EmptyMap,
   hourly_settings |-> EmptyHourly, raised |-> FALSE]

\* ------------------------------------------------- process_folder, one photo
\* if 'DateTimeOriginal' in exif_data: try: dt = datetime.strptime(raw, strict)
\* hourly_settings[dt.hour][field].append(value); except ValueError: pass.
\* strptime of a value that is not a str raises TypeError, which is not caught.
AppendHourly(agg, exif_data, field, value) ==
  IF ~Has(exif_data, "DateTimeOriginal") THEN agg
  ELSE IF exif_data.DateTimeOriginal.tag # "text"
  THEN [agg EXCEPT !.raised = TRUE]
  ELSE LET dt == strptime(exif_data.DateTimeOriginal.s, STRICT_FORMAT) IN
       IF dt.ok
       THEN [agg EXCEPT !.hourly_settings[dt.hour][field] = Append(@, value)]
       ELSE agg

FocalStep(agg, exif_data) ==
  IF Has(exif_data, "FocalLength")
  THEN LET focal_length == process_focal_length(exif_data.FocalLength) IN
       IF Truthy(focal_length)
       THEN [agg EXCEPT !.focal_lengths = Append(@, focal_length.v)]
       ELSE agg
  ELSE agg

DateStep(agg, exif_data) ==
  IF Has(exif_data, "DateTimeOriginal")
  THEN LET dt == try_parse_date(exif_data.DateTimeOriginal) IN
       IF dt.ok
       THEN [agg EXCEPT !.dates = Inc(@, dt.date), !.hours = Inc(@, dt.hour)]
       ELSE agg
  ELSE agg

IsoStep(agg, exif_data) ==
  IF Has(exif_data, "ISOSpeedRatings")
  THEN LET iso_value == process_iso_value(exif_data.ISOSpeedRatings) IN
       IF Truthy(iso_value)
       THEN AppendHourly([agg EXCEPT !.iso = Inc(@, iso_value.v)],
                         exif_data, "isos", iso_value.v)
       ELSE agg
  ELSE agg

ApertureStep(agg, exif_data) ==
  IF Has(exif_data, "FNumber")
  THEN LET aperture == process_aperture(exif_data.FNumber) IN
       IF Truthy(aperture)
       THEN AppendHourly([agg EXCEPT !.apertures = Inc(@, aperture.v)],
                         exif_data, "apertures", aperture.v)
       ELSE agg
  ELSE agg

ShutterStep(agg, exif_data) ==
  IF Has(exif_data, "ExposureTime")
  THEN LET shutter_speed == process_shutter_speed(exif_data.ExposureTime) IN
       IF Truthy(shutter_speed)
       THEN AppendHourly([agg EXCEPT !.shutter_speeds = Inc(@, shutter_speed.v)],
                         exif_data, "shutter_speeds", shutter_speed.v)
       ELSE agg
  ELSE agg

\* the statements of the loop body, in the order the code runs them
FIELD_STEPS == <<"FocalLength", "DateTimeOriginal", "ISOSpeedRatings", "FNumber", "ExposureTime">>

FieldStep(key, agg, exif_data) ==
  CASE key = "FocalLength" -> FocalStep(agg, exif_data)
    [] key = "DateTimeOriginal" -> DateStep(agg, exif_data)
    [] key = "ISOSpeedRatings" -> IsoStep(agg, exif_data)
    [] key = "FNumber" -> ApertureStep(agg, exif_data)
    [] key = "ExposureTime" -> ShutterStep(agg, exif_data)

\* the statements from the k-th on; a statement after a raise is not executed
RECURSIVE RunSteps(_, _, _)
RunSteps(agg, exif_data, k) ==
  IF k > Len(FIELD_STEPS) \/ agg.raised THEN agg
  ELSE RunSteps(FieldStep(FIELD_STEPS[k], agg, exif_data), exif_data, k + 1)

\* the body of `for image_path in image_files` for one photo
ProcessPhoto(agg, exif_data) ==
  IF exif_data = EmptyMapping THEN agg ELSE RunSteps(agg, exif_data, 1)

\* process_folder over a whole sequence of mappings; it stops at a raise
RECURSIVE process_folder(_, _)
process_folder(agg, mappings) ==
  IF mappings = <<>> \/ agg.raised THEN agg
  ELSE process_folder(ProcessPhoto(agg, Head(mappings)), Tail(mappings))

\* ------------------------------------------------ analyze_folder statistics
\* list.sort(): insertion into an ascending list
RECURSIVE Insert(_, _)
Insert(x, s) ==
  IF s = <<>> THEN <<x>>
  ELSE IF x <= Head(s) THEN <<x>> \o s
  ELSE <<Head(s)>> \o Insert(x, Tail(s))
RECURSIVE Sort(_)
Sort(s) == IF s = <<>> THEN <<>> ELSE Insert(Head(s), Sort(Tail(s)))

\* [f for f in focal_lengths if f]
RECURSIVE ValidFocalLengths(_)
ValidFocalLengths(s) ==
  IF s = <<>> THEN <<>>
  ELSE IF Head(s) # 0 THEN <<Head(s)>> \o ValidFocalLengths(Tail(s))
  ELSE ValidFocalLengths(Tail(s))

\* FocalLengthMedian without the sort
FocalLengthMedianUnsorted(samples) ==
  LET valid_focal_lengths == ValidFocalLengths(samples)
      n == Len(valid_focal_lengths)
      mid == n \div 2
  IN IF n = 0 THEN <<0, 1>>
     ELSE IF n % 2 = 0
     THEN Frac(valid_focal_lengths[mid] + valid_focal_lengths[mid + 1], 2)
     ELSE <<valid_focal_lengths[mid + 1], 1>>

\* FocalLengthMedian taking the upper middle element of an even count
FocalLengthMedianUpper(samples) ==
  LET valid_focal_lengths == Sort(ValidFocalLengths(samples))
      n == Len(valid_focal_lengths)
  IN IF n = 0 THEN <<0, 1>> ELSE <<valid_focal_lengths[(n \div 2) + 1], 1>>

FocalLengthMedian(samples) ==
  LET valid_focal_lengths == Sort(ValidFocalLengths(samples))
      n == Len(valid_focal_lengths)
      mid == n \div 2
  IN IF n = 0 THEN <<0, 1>>
     ELSE IF n % 2 = 0
     THEN Frac(valid_focal_lengths[mid] + valid_focal_lengths[mid + 1], 2)
     ELSE <<valid_focal_lengths[mid + 1], 1>>

\* TotalPhotos counting the dates instead of the photos
TotalPhotosDays(d) == Cardinality(DOMAIN d)

TotalPhotos(d) == SumValues(d)

\* DailyAverage with the quotient inverted
DailyAverageInverted(d) ==
  LET num_days == Cardinality(DOMAIN d) IN
  IF num_days > 0 THEN Frac(num_days, SumValues(d)) ELSE <<0, 1>>

DailyAverage(d) ==
  LET num_days == Cardinality(DOMAIN d) IN
  IF num_days > 0 THEN Frac(TotalPhotos(d), num_days) ELSE <<0, 1>>

CHART_FILES ==
  {"focal_length_chart.png", "daily_count_chart.png", "hourly_count_chart.png",
   "iso_chart.png", "aperture_chart.png", "shutter_speed_chart.png",
   "hourly_settings_chart.png"}

\* the six charts generate_chart saves before the hourly chart is drawn
DATA_CHARTS == CHART_FILES \ {"hourly_settings_chart.png"}

\* ------------------------------------------------ generate_chart, histogram
\* plt.hist(data, bins=20)
BINS == 20

\* floats of the chart as reduced fractions
FAdd(a, b) == Frac(a[1] * b[2] + b[1] * a[2], a[2] * b[2])
FSub(a, b) == Frac(a[1] * b[2] - b[1] * a[2], a[2] * b[2])
FMul(a, b) == Frac(a[1] * b[1], a[2] * b[2])
\* a / b for b > 0
FDiv(a, b) == Frac(a[1] * b[2], a[2] * b[1])
FLeq(a, b) == a[1] * b[2] <= b[1] * a[2]
FLess(a, b) == a[1] * b[2] < b[1] * a[2]

Min(S) == CHOOSE x \in S : \A y \in S : x <= y
Max(S) == CHOOSE x \in S : \A y \in S : y <= x

\* the range of the histogram: (min, max) of the samples, widened by 0.5 on
\* both sides when they are equal
HistRange(data) ==
  IF Min(Range(data)) = Max(Range(data))
  THEN [first |-> Frac(2 * Min(Range(data)) - 1, 2),
        last |-> Frac(2 * Max(Range(data)) + 1, 2)]
  ELSE [first |-> <<Min(Range(data)), 1>>, last |-> <<Max(Range(data)), 1>>]

\* the BINS + 1 edges: linspace(first, last, BINS + 1)
BinEdges(data) ==
  [k \in 1..(BINS + 1) |->
     FAdd(HistRange(data).first,
          FMul(<<k - 1, BINS>>, FSub(HistRange(data).last, HistRange(data).first)))]

\* a sample falls into bin k: the bins are closed on the left and open on the
\* right, but the last one, which is closed on both sides
InBin(x, bins, k) ==
  /\ FLeq(bins[k], <<x, 1>>)
  /\ \/ FLess(<<x, 1>>, bins[k + 1])
     \/ k = BINS /\ <<x, 1>> = bins[k + 1]

\* counts, bins, patches = plt.hist(data, bins=20)
hist(data) ==
  [bins |-> BinEdges(data),
   counts |-> [k \in 1..BINS |->
                 Cardinality({j \in DOMAIN data : InBin(data[j], BinEdges(data), k)})]]

RECURSIVE SumSeq(_)
SumSeq(s) == IF s = <<>> THEN 0 ELSE Head(s) + SumSeq(Tail(s))

\* what generate_chart leaves in split_point: "ok" with the bin the walk
\* stopped at and the value, "nodata" when the list is empty, "unbound" when
\* the loop ends without a break (the name is then not bound), "zero" when
\* the count divided by is 0
NoSplit(status) == [status |-> status, bin |-> 0, v |-> <<0, 1>>]

\* the walk with > in place of >=
RECURSIVE SplitWalkStrict(_, _, _, _)
SplitWalkStrict(h, half_photos, i, cumsum) ==
  IF i > BINS THEN NoSplit("unbound")
  ELSE IF FLess(half_photos, <<cumsum + h.counts[i], 1>>)
  THEN IF h.counts[i] = 0 THEN NoSplit("zero")
       ELSE [status |-> "ok", bin |-> i,
             v |-> FAdd(h.bins[i],
                        FMul(FDiv(FSub(half_photos, <<cumsum, 1>>), <<h.counts[i], 1>>),
                             FSub(h.bins[i + 1], h.bins[i])))]
  ELSE SplitWalkStrict(h, half_photos, i + 1, cumsum + h.counts[i])

\* for i, (count, left_edge, right_edge) in enumerate(zip(counts, bins[:-1],
\* bins[1:])): cumsum += count; if cumsum >= half_photos: prev_sum = cumsum -
\* count; ratio = (half_photos - prev_sum) / count; split_point = left_edge +
\* ratio * (right_edge - left_edge); break.  Here cumsum is the sum before
\* bin i, the code's prev_sum.
RECURSIVE SplitWalk(_, _, _, _)
SplitWalk(h, half_photos, i, cumsum) ==
  IF i > BINS THEN NoSplit("unbound")
  ELSE IF FLeq(half_photos, <<cumsum + h.counts[i], 1>>)
  THEN IF h.counts[i] = 0 THEN NoSplit("zero")
       ELSE [status |-> "ok", bin |-> i,
             v |-> FAdd(h.bins[i],
                        FMul(FDiv(FSub(half_photos, <<cumsum, 1>>), <<h.counts[i], 1>>),
                             FSub(h.bins[i + 1], h.bins[i])))]
  ELSE SplitWalk(h, half_photos, i + 1, cumsum + h.counts[i])

\* the one element of a singleton
The(S) == CHOOSE x \in S : TRUE

\* generate_chart of a list: total_photos = sum(counts); half_photos =
\* total_photos / 2; the split point of the walk
generate_chart(data) ==
  IF data = <<>> THEN NoSplit("nodata")
  ELSE The({SplitWalk(h, Frac(SumSeq(h.counts), 2), 1, 0) : h \in {hist(data)}})

\* ------------------------------------------- generate_hourly_settings_chart
\* np.mean(bucket) if bucket else None, as kept by filter(None, ...): the
\* bucket is not empty and its mean is not 0
HasMean(bucket) == bucket # <<>> /\ SumSeq(bucket) # 0

\* the hourly chart is saved: 1/shutter_speed of no hourly mean divides by
\* zero, and min(filter(None, avg_apertures)) and min(filter(None, avg_isos))
\* are not taken of an empty sequence (ValueError)
generate_hourly_settings_chart(hourly) ==
  /\ \A h \in DOMAIN hourly :
       hourly[h].shutter_speeds # <<>> => SumSeq(hourly[h].shutter_speeds) # 0
  /\ \E h \in DOMAIN hourly : HasMean(hourly[h].apertures)
  /\ \E h \in DOMAIN hourly : HasMean(hourly[h].isos)

\* ------------------------------------------------------------------ inputs
Digits2(x) == <<DigitChars[(x \div 10) + 1], DigitChars[(x % 10) + 1]>>
Digits4(x) == Digits2(x \div 100) \o Digits2(x % 100)

\* the text of a date-time with the given separators
DateText(y, mo, d, h, mi, sec, dsep, gap, tsep) ==
  Digits4(y) \o dsep \o Digits2(mo) \o dsep \o Digits2(d) \o gap \o
  Digits2(h) \o tsep \o Digits2(mi) \o tsep \o Digits2(sec)

Colon == <<":">>
Blank == <<" ">>
Nul == <<"NUL">>

\* "2023:05:01 10:20:30" and "2023:05:02 08:00:00": the strict EXIF format
T_Strict1 == DateText(2023, 5, 1, 10, 20, 30, Colon, Blank, Colon)
T_Strict2 == DateText(2023, 5, 2, 8, 0, 0, Colon, Blank, Colon)
\* "2023-05-01 10:20:30", "20230501_102030", "2023_05_01 10:20:30",
\* "20230501102030": the fallback formats
T_Hyphen == DateText(2023, 5, 1, 10, 20, 30, <<"-">>, Blank, Colon)
T_Compact == DateText(2023, 5, 1, 10, 20, 30, <<>>, <<"_">>, <<>>)
T_Underscore == DateText(2023, 5, 1, 10, 20, 30, <<"_">>, Blank, Colon)
T_DigitsOnly == DateText(2023, 5, 1, 10, 20, 30, <<>>, <<>>, <<>>)
T_NotADate == <<"n", "o", "t", " ", "a", " ", "d", "a", "t", "e">>
T_Abc == <<"a", "b", "c">>

\* raw DateTimeOriginal values
DateValues ==
  { TextV(T_Strict1), TextV(T_Strict2), TextV(T_Hyphen), TextV(T_Compact),
    TextV(T_Underscore), TextV(T_DigitsOnly),
    TextV(T_Strict1 \o Blank),                      \* trailing blank
    TextV(T_Strict2 \o Nul),                        \* trailing \x00
    TextV(Blank \o T_Hyphen \o Nul \o Blank),
    TextV(<<"2", "0", "2", "3", ":", "0", "5", "NUL", ":", "0", "1", " ",
            "1", "0", ":", "2", "0", ":", "3", "0">>),   \* embedded \x00
    TextV(<<"2", "0", "2", "3", ":", "5", ":", "1", " ", "8", ":", "0", ":", "0">>),
    TextV(DateText(2023, 5, 1, 10, 20, 30, Colon, <<" ", " ">>, Colon)),
    TextV(DateText(2023, 2, 30, 10, 20, 30, Colon, Blank, Colon)),
    TextV(DateText(2024, 2, 29, 23, 59, 59, Colon, Blank, Colon)),
    TextV(DateText(2023, 5, 1, 24, 0, 0, Colon, Blank, Colon)),
    TextV(DateText(2023, 5, 1, 10, 20, 60, Colon, Blank, Colon)),
    TextV(DateText(0, 5, 1, 10, 20, 30, Colon, Blank, Colon)),
    TextV(DateText(2023, 13, 1, 10, 20, 30, <<>>, <<>>, <<>>)),
    TextV(<<"2", "0", "2", "3", "5", "1", "1", "0", "2", "3">>),
    TextV(T_Strict1 \o <<"1">>),
    TextV(T_NotADate), TextV(<<>>), TextV(Blank),
    IntV(20230501), IntV(0), NaNV, PairV(2023, 5) }

FocalValues ==
  { IntV(24), IntV(0), IntV(-3), FloatV(5, 2), FloatV(7, 2), FloatV(1, 4), NaNV,
    PairV(24, 1), PairV(35, 0), PairV(0, 0), PairV(5, 2), PairV(7, 2),
    PairV(-5, 2), PairV(100, 3), PairV(50, -1), PairV(0, 5), PairV(1, 3),
    PairNaNNum(1), PairNaNDen(1),
    TextV(<<"5", "0">>), TextV(<<"2", ".", "5">>), TextV(<<" ", "3", "5", " ">>),
    TextV(T_Abc), TextV(<<>>), TextV(<<"5", "0", "NUL">>) }

IsoValues ==
  { IntV(25), IntV(49), IntV(50), IntV(51), IntV(100), IntV(512000),
    IntV(512001), IntV(0), IntV(-100), FloatV(201, 2), FloatV(99, 2), NaNV,
    TextV(<<"1", "0", "0">>), TextV(<<"2", "5">>), TextV(<<"5", "0">>),
    TextV(<<"5", "1", "2", "0", "0", "0">>), TextV(<<"5", "1", "2", "0", "0", "1">>),
    TextV(<<" ", "5", "0", " ">>), TextV(<<"-", "5", "0">>),
    TextV(<<"1", "0", "0", ".", "0">>), TextV(T_Abc), TextV(<<>>),
    PairV(50, 1), PairV(100, 0), PairV(25, 1), PairV(512000, 3),
    PairV(512001, 1), PairNaNNum(1), PairNaNDen(100) }

ApertureValues ==
  { PairV(28, 10), PairV(4, 1), PairV(1, 4), PairV(3, 4), PairV(1, 3),
    PairV(2, 3), PairV(0, 1), PairV(1, 100), PairV(5, 0), PairV(0, 0),
    PairV(-7, 4), PairV(9, -4), PairNaNNum(10), PairNaNDen(28), NaNV,
    IntV(2), IntV(0), FloatV(11, 4), FloatV(9, 4),
    TextV(<<"2", ".", "8">>), TextV(<<"1", "1">>), TextV(T_Abc), TextV(<<>>) }

ShutterValues ==
  { PairV(1, 250), PairV(1, 60), PairV(1, 32000), PairV(1, 8000),
    PairV(3, 16000), PairV(30, 1), PairV(1, 3), PairV(1, 0), PairV(0, 1),
    PairV(-1, 250), PairNaNNum(250), PairNaNDen(1), NaNV,
    IntV(2), FloatV(1, 8), FloatV(1, 65536),
    TextV(<<"0", ".", "0", "0", "4">>), TextV(<<".", "5">>), TextV(T_Abc) }

\* the photos of the folder of the aggregation specification
FolderRecords ==
  { EmptyMapping,
    Exif(PairV(24, 1), TextV(T_Strict1), IntV(100), PairV(28, 10), PairV(1, 250)),
    Exif(IntV(35), TextV(T_Strict2), IntV(200), PairV(28, 10), PairV(1, 60)),
    Exif(IntV(50), TextV(T_Hyphen \o Nul), TextV(<<"4", "0", "0">>), PairV(1, 4),
         FloatV(1, 8)),
    Exif(PairV(71, 2), Absent, TextV(T_Abc), PairV(4, 1), PairV(1, 32000)),
    Exif(PairV(24, 1), IntV(20230501), IntV(100), PairV(28, 10), PairV(1, 250)),
    Exif(PairV(50, 0), TextV(T_NotADate), IntV(25), PairV(0, 1), NaNV) }

\* the photos of the folder of the per-field specification: every raw value
\* of every field alone, and some raw dates with each of a few settings
FieldSettings ==
  { <<IntV(100), Absent, Absent>>,
    <<Absent, PairV(0, 1), Absent>>,
    <<Absent, Absent, PairV(1, 32000)>>,
    <<TextV(T_Abc), PairV(4, 1), PairV(1, 60)>>,
    <<IntV(100), PairV(28, 10), PairV(1, 250)>> }

FieldDates ==
  { TextV(T_Strict1), TextV(T_Strict2), TextV(T_Hyphen), TextV(T_DigitsOnly),
    TextV(T_Strict1 \o Blank), TextV(T_Strict2 \o Nul),
    TextV(DateText(2023, 5, 1, 10, 20, 30, Colon, <<" ", " ">>, Colon)),
    TextV(DateText(2023, 2, 30, 10, 20, 30, Colon, Blank, Colon)),
    TextV(T_NotADate), IntV(20230501) }

FieldRecords ==
  {EmptyMapping}
  \cup {Exif(v, Absent, Absent, Absent, Absent) : v \in FocalValues}
  \cup {Exif(Absent, v, Absent, Absent, Absent) : v \in DateValues}
  \cup {Exif(Absent, Absent, v, Absent, Absent) : v \in IsoValues}
  \cup {Exif(Absent, Absent, Absent, v, Absent) : v \in ApertureValues}
  \cup {Exif(Absent, Absent, Absent, Absent, v) : v \in ShutterValues}
  \cup {Exif(IntV(35), v, st[1], st[2], st[3]) : v \in FieldDates, st \in FieldSettings}

\* the photos of the folder of the histogram specification: the focal
\* lengths 20 and 200, and 29, an edge of the bins over [20, 200]
ChartFocals == {20, 29, 200}

ChartRecords ==
  {Exif(IntV(f), TextV(T_Strict1), IntV(100), PairV(28, 10), PairV(1, 250)) :
     f \in ChartFocals}

\* ----------------------------------------------------------------- actions
FOLDER_PATHS == {"missing", "unreadable", "readable"}

Init ==
  /\ folder_path \in FOLDER_PATHS
  /\ pc = "start"
  /\ records = <<>>
  /\ focal_lengths = EmptyAggregate.focal_lengths
  /\ dates = EmptyAggregate.dates
  /\ hours = EmptyAggregate.hours
  /\ iso = EmptyAggregate.iso
  /\ apertures = EmptyAggregate.apertures
  /\ shutter_speeds = EmptyAggregate.shutter_speeds
  /\ hourly_settings = EmptyAggregate.hourly_settings
  /\ output_dir = FALSE
  /\ chart_paths = {}
  /\ saved_charts = {}
  /\ split_point = NoSplit("nodata")
  /\ total_photos = 0
  /\ focal_length_median = <<0, 1>>
  /\ daily_average = <<0, 1>>

\* the aggregation structures as one value
Aggregate ==
  [focal_lengths |-> focal_lengths, dates |-> dates, hours |-> hours,
   iso |-> iso, apertures |-> apertures, shutter_speeds |-> shutter_speeds,
   hourly_settings |-> hourly_settings, raised |-> pc = "raised"]

\* analyze_folder: the path does not exist; return None and the message
PathNotFound ==
  /\ pc = "start"
  /\ folder_path = "missing"
  /\ pc' = "error"
  /\ UNCHANGED <<folder_path, records, focal_lengths, dates, hours, iso, apertures,
                 shutter_speeds, hourly_settings, output_dir, chart_paths,
                 saved_charts, split_point,
                 total_photos, focal_length_median, daily_average>>

\* analyze_folder: the path exists; create the output directory and enter
\* process_folder
EnterFolder ==
  /\ pc = "start"
  /\ folder_path # "missing"
  /\ pc' = "loop"
  /\ output_dir' = TRUE
  /\ UNCHANGED <<folder_path, records, focal_lengths, dates, hours, iso, apertures,
                 shutter_speeds, hourly_settings, chart_paths,
                 saved_charts, split_point,
                 total_photos, focal_length_median, daily_average>>

\* one iteration of the photo loop, on a photo whose mapping is in `photos`
ProcessImage(photos, max) ==
  /\ pc = "loop"
  /\ folder_path = "readable"
  /\ Len(records) < max
  /\ \E exif_data \in photos :
     \E a \in {ProcessPhoto(Aggregate, exif_data)} :
       /\ records' = Append(records, exif_data)
       /\ focal_lengths' = a.focal_lengths
       /\ dates' = a.dates
       /\ hours' = a.hours
       /\ iso' = a.iso
       /\ apertures' = a.apertures
       /\ shutter_speeds' = a.shutter_speeds
       /\ hourly_settings' = a.hourly_settings
       /\ pc' = IF a.raised THEN "raised" ELSE "loop"
  /\ UNCHANGED <<folder_path, output_dir, chart_paths, saved_charts,
                 split_point, total_photos, focal_length_median, daily_average>>

\* the loop is over: generate the six charts of the aggregates and the
\* hourly chart, compute the statistics, return.  An exception of the chart
\* generation leaves analyze_folder with the charts saved so far.
ReturnResults ==
  /\ pc = "loop"
  /\ \E split \in {generate_chart(focal_lengths)} :
       IF split.status = "unbound"
       THEN /\ pc' = "chart_raised"
            /\ UNCHANGED <<chart_paths, saved_charts, split_point, total_photos,
                           focal_length_median, daily_average>>
       ELSE /\ split_point' = split
            /\ IF generate_hourly_settings_chart(hourly_settings)
               THEN /\ pc' = "done"
                    /\ saved_charts' = CHART_FILES
                    /\ chart_paths' = CHART_FILES
                    /\ total_photos' = TotalPhotos(dates)
                    /\ focal_length_median' = FocalLengthMedian(focal_lengths)
                    /\ daily_average' = DailyAverage(dates)
               ELSE /\ pc' = "chart_raised"
                    /\ saved_charts' = DATA_CHARTS
                    /\ UNCHANGED <<chart_paths, total_photos,
                                   focal_length_median, daily_average>>
  /\ UNCHANGED <<folder_path, records, focal_lengths, dates, hours, iso,
                 apertures, shutter_speeds, hourly_settings, output_dir>>

Next ==
  \/ PathNotFound
  \/ EnterFolder
  \/ ProcessImage(FolderRecords, MaxPhotos)
  \/ ReturnResults

Spec == Init /\ [][Next]_vars

NextFields ==
  \/ PathNotFound
  \/ EnterFolder
  \/ ProcessImage(FieldRecords, MaxFieldPhotos)
  \/ ReturnResults

SpecFields == Init /\ [][NextFields]_vars

NextChart ==
  \/ PathNotFound
  \/ EnterFolder
  \/ ProcessImage(ChartRecords, MaxChartPhotos)
  \/ ReturnResults

SpecChart == Init /\ [][NextChart]_vars

\* ======================================================================
\* Properties
\* ======================================================================
\* the indices of the photos read so far
Photos == DOMAIN records

\* a sequence as a multiset: the number of occurrences of each element
BagOf(s) == [x \in Range(s) |-> Cardinality({i \in DOMAIN s : s[i] = x})]

\* every reordering of a sequence
Reorderings(s) == {[i \in DOMAIN s |-> s[p[i]]] : p \in Permutations(DOMAIN s)}

BucketFields == {"apertures", "shutter_speeds", "isos"}

\* the FrequencyMaps, the hourly buckets as multisets and the statistics of
\* an aggregate agree with the ones of this run
SameResults(agg) ==
  /\ agg.dates = dates
  /\ agg.hours = hours
  /\ agg.iso = iso
  /\ agg.apertures = apertures
  /\ agg.shutter_speeds = shutter_speeds
  /\ \A h \in DOMAIN hourly_settings : \A f \in BucketFields :
       BagOf(agg.hourly_settings[h][f]) = BagOf(hourly_settings[h][f])
  /\ TotalPhotos(agg.dates) = total_photos
  /\ FocalLengthMedian(agg.focal_lengths) = focal_length_median
  /\ DailyAverage(agg.dates) = daily_average

\* C1: aggregation is order-independent.  When a run over the photos read
\* has returned its results, process_folder and the statistics over every
\* reordering of the same photos give the same date, hour, ISO, aperture and
\* shutter-speed FrequencyMaps, the same hourly buckets as multisets and the
\* same totalPhotos, focalLengthMedian and dailyAverage; and a run ends in an
\* exception exactly when the run over every reordering does.
C1_OrderIndependent ==
  /\ pc = "done" =>
       \A q \in Reorderings(records) :
         \E agg \in {process_folder(EmptyAggregate, q)} :
           ~agg.raised /\ SameResults(agg)
  /\ pc = "raised" =>
       \A q \in Reorderings(records) : process_folder(EmptyAggregate, q).raised

\* three different photos with different focal lengths, dates and settings
\* were aggregated and the results returned
C1_Witness ==
  /\ pc = "done"
  /\ Len(records) = 3
  /\ Cardinality(Range(records)) = 3
  /\ Cardinality(Range(focal_lengths)) = 3
  /\ Cardinality(DOMAIN dates) = 2
  /\ Cardinality(DOMAIN iso) >= 2
  /\ Cardinality({h \in DOMAIN hourly_settings : hourly_settings[h].apertures # <<>>}) = 2

\* C2: the batch never aborts on a bad record: whatever mappings the photos
\* have, no exception leaves process_folder.
C2_BatchNeverAborts == pc # "raised"

\* the normalizer of a tag
Normalized(key, raw) ==
  CASE key = "FocalLength" -> process_focal_length(raw)
    [] key = "ISOSpeedRatings" -> process_iso_value(raw)
    [] key = "FNumber" -> process_aperture(raw)
    [] key = "ExposureTime" -> process_shutter_speed(raw)

\* the photos whose value of a tag is counted, judged by that value alone
CountedPhotos(key) ==
  {i \in Photos : Has(records[i], key) /\ Truthy(Normalized(key, records[i][key]))}

\* the FrequencyMap of a tag as a function of that tag's raw values alone
FieldCounts(key) ==
  LET counted == CountedPhotos(key)
      val(i) == Normalized(key, records[i][key]).v
  IN [k \in {val(i) : i \in counted} |-> Cardinality({i \in counted : val(i) = k})]

\* the photos whose date parses under the fallback chain
DatedPhotos == {i \in Photos : try_parse_date(records[i].DateTimeOriginal).ok}

DateCounts ==
  LET day(i) == try_parse_date(records[i].DateTimeOriginal).date IN
  [k \in {day(i) : i \in DatedPhotos} |-> Cardinality({i \in DatedPhotos : day(i) = k})]

HourCounts ==
  LET hr(i) == try_parse_date(records[i].DateTimeOriginal).hour IN
  [k \in {hr(i) : i \in DatedPhotos} |-> Cardinality({i \in DatedPhotos : hr(i) = k})]

\* C3: the fields of one record are processed independently: what each of
\* the five fields contributes (focal-length sample, date and hour counts,
\* ISO, aperture and shutter-speed counts) is decided by that field's raw
\* value alone, so every photo read has each of its fields counted whatever
\* its other fields are.
C3_FieldsIndependent ==
  /\ BagOf(focal_lengths) = FieldCounts("FocalLength")
  /\ dates = DateCounts
  /\ hours = HourCounts
  /\ iso = FieldCounts("ISOSpeedRatings")
  /\ apertures = FieldCounts("FNumber")
  /\ shutter_speeds = FieldCounts("ExposureTime")

\* C4: totalPhotos is the number of photos whose date parses under the
\* fallback chain, which is the sum of the date counts and the sum of the
\* hour counts; a photo without a parseable date adds nothing to it.
C4_TotalPhotos ==
  /\ SumValues(dates) = Cardinality(DatedPhotos)
  /\ SumValues(hours) = Cardinality(DatedPhotos)
  /\ pc = "done" => total_photos = Cardinality(DatedPhotos)

\* the results were returned for a folder with a dated photo and a photo
\* that has no parseable date but a counted focal length
C4_Witness ==
  /\ pc = "done"
  /\ total_photos >= 1
  /\ \E i \in Photos \ DatedPhotos : i \in CountedPhotos("FocalLength")
  /\ \E i \in Photos \ DatedPhotos : i \in CountedPhotos("FNumber")

\* the tag a bucket of hourly_settings collects
BucketKey(field) ==
  CASE field = "isos" -> "ISOSpeedRatings"
    [] field = "apertures" -> "FNumber"
    [] field = "shutter_speeds" -> "ExposureTime"

\* the raw (uncleaned) date of photo i parses under the strict format with
\* hour-of-day h
StrictAt(i, h) ==
  /\ records[i].DateTimeOriginal.tag = "text"
  /\ \E dt \in {strptime(records[i].DateTimeOriginal.s, STRICT_FORMAT)} :
       dt.ok /\ dt.hour = h

\* the normalizer returned a value for the tag of photo i
Present(i, key) == Has(records[i], key) /\ Normalized(key, records[i][key]).ok

\* the values of the first n photos that are present and whose raw date is
\* strict with hour h, in the order of the photos
RECURSIVE StrictValues(_, _, _)
StrictValues(key, h, n) ==
  IF n = 0 THEN <<>>
  ELSE StrictValues(key, h, n - 1) \o
       (IF Present(n, key) /\ StrictAt(n, h)
        THEN <<Normalized(key, records[n][key]).v>> ELSE <<>>)

RECURSIVE SumLen(_, _, _)
SumLen(buckets, field, H) ==
  IF H = {} THEN 0
  ELSE LET h == CHOOSE x \in H : TRUE IN
       Len(buckets[h][field]) + SumLen(buckets, field, H \ {h})

FrequencyMapOf(field) ==
  CASE field = "isos" -> iso
    [] field = "apertures" -> apertures
    [] field = "shutter_speeds" -> shutter_speeds

\* C5: hourly-bucket membership uses only the strict format: for ISO,
\* aperture and shutter speed, the bucket of hour h holds the value of a
\* photo if and only if the value is present and the photo's raw date parses
\* under YYYY:MM:DD HH:MM:SS with hour h; and the buckets of a parameter hold
\* no more values than its FrequencyMap counts.
C5_StrictBuckets ==
  pc \in {"loop", "done"} =>
    \A f \in BucketFields :
      /\ \A h \in DOMAIN hourly_settings :
           hourly_settings[h][f] = StrictValues(BucketKey(f), h, Len(records))
      /\ SumLen(hourly_settings, f, DOMAIN hourly_settings)
           <= SumValues(FrequencyMapOf(f))

\* C6: process_iso_value returns an integer only within [50, 512000], both
\* bounds included, and None otherwise, for an integer, a text parsed as an
\* integer and the first element of a pair; so every key of the ISO
\* FrequencyMap and every element of every hourly ISO bucket is in range.
C6_IsoRange ==
  /\ \A k \in DOMAIN iso : 50 <= k /\ k <= 512000
  /\ \A h \in DOMAIN hourly_settings : \A j \in DOMAIN hourly_settings[h].isos :
       50 <= hourly_settings[h].isos[j] /\ hourly_settings[h].isos[j] <= 512000
  /\ \A i \in Photos :
       \E x \in {records[i].ISOSpeedRatings} :
       \E r \in {process_iso_value(x)} :
       \E given \in {IF x.tag = "int" \/ (x.tag = "pair" /\ ~x.nn) THEN Some(x.n)
                     ELSE IF x.tag = "text" THEN ParseInt(x.s) ELSE None} :
         /\ r.ok => 50 <= r.v /\ r.v <= 512000
         /\ given.ok =>
              r = IF 50 <= given.v /\ given.v <= 512000 THEN Some(given.v) ELSE None
         /\ (given.ok /\ r.ok /\ pc \in {"loop", "done"}) => r.v \in DOMAIN iso

\* the bounds 50 and 512000 themselves were counted, as an integer and as a text
C6_Witness ==
  /\ pc = "loop"
  /\ \E i \in Photos :
       /\ records[i].ISOSpeedRatings \in {IntV(512000), TextV(<<"5", "0">>)}
       /\ DOMAIN iso \in {{512000}, {50}}

\* C7: process_focal_length, process_aperture and process_shutter_speed are
\* total: a pair with a zero denominator or a not-a-number component, a
\* not-a-number scalar and an unparsable text give None; a pair (n, d) of
\* numbers with d # 0 gives n/d rounded to 0, 1 and 4 decimal places (a value
\* of the grid at most half a unit of the last place away from n/d).
C7_Normalizers ==
  \A key \in {"FocalLength", "FNumber", "ExposureTime"} :
  \A i \in Photos :
    \E x \in {records[i][key]} :
    \E r \in {Normalized(key, x)} :
    \E scale \in {CASE key = "FocalLength" -> 1 [] key = "FNumber" -> 10
                    [] key = "ExposureTime" -> 10000} :
      Has(records[i], key) =>
        /\ x.tag = "nan" => ~r.ok
        /\ (x.tag = "pair" /\ (x.nn \/ x.dn \/ x.d = 0)) => ~r.ok
        /\ (x.tag = "pair" /\ ~x.nn /\ ~x.dn /\ x.d # 0) =>
             r.ok /\ 2 * Abs(r.v * x.d - x.n * scale) <= Abs(x.d)
        /\ (x.tag = "text" /\ ~ParseFloat(x.s).ok) => ~r.ok
        /\ r.ok \/ r = None

\* the pair (2, 3) was normalized as an aperture: 0.7
C7_Witness ==
  /\ pc = "loop"
  /\ \E i \in Photos : records[i].FNumber = PairV(2, 3)
  /\ DOMAIN apertures = {7}

\* the five formats in the order the claim gives them
ClaimedFormats ==
  << <<"%Y", ":", "%m", ":", "%d", " ", "%H", ":", "%M", ":", "%S">>,
     <<"%Y", "-", "%m", "-", "%d", " ", "%H", ":", "%M", ":", "%S">>,
     <<"%Y", "%m", "%d", "_", "%H", "%M", "%S">>,
     <<"%Y", "_", "%m", "_", "%d", " ", "%H", ":", "%M", ":", "%S">>,
     <<"%Y", "%m", "%d", "%H", "%M", "%S">> >>

\* t is text without \x00 and without leading or trailing whitespace that
\* is left when the \x00 and the surrounding whitespace of s are removed
IsCleaned(t, s) ==
  /\ \A j \in DOMAIN t : t[j] # "NUL"
  /\ t # <<>> => ~IsSpace(t[1]) /\ ~IsSpace(t[Len(t)])
  /\ \E lead \in 0..Len(s) :
       /\ \A j \in 1..lead : s[j] = "NUL" \/ IsSpace(s[j])
       /\ \E rest \in {RemoveNul(Slice(s, lead + 1, Len(s)))} :
            /\ Len(rest) >= Len(t)
            /\ Slice(rest, 1, Len(t)) = t
            /\ \A j \in (Len(t) + 1)..Len(rest) : IsSpace(rest[j])

\* C8: try_parse_date removes the null characters and the surrounding
\* whitespace, returns the parse of the first of the five formats, in their
\* order, that matches what is left, and returns None when no format
\* matches, when the input is empty and when it is not text.
C8_ParseDate ==
  \A i \in Photos :
    \E x \in {records[i].DateTimeOriginal} :
    \E r \in {try_parse_date(x)} :
      /\ (x.tag # "text" \/ x.s = <<>>) => ~r.ok
      /\ x.tag = "text" =>
           \E t \in {Strip(RemoveNul(x.s))} :
           \E hits \in {{k \in DOMAIN ClaimedFormats : strptime(t, ClaimedFormats[k]).ok}} :
             /\ IsCleaned(t, x.s)
             /\ hits = {} => ~r.ok
             /\ hits # {} =>
                  r = strptime(t, ClaimedFormats[CHOOSE k \in hits : \A j \in hits : k <= j])
      /\ x = TextV(T_Strict1) =>
           r.ok /\ r.date = <<2023, 5, 1>> /\ r.hour = 10 /\ r.minute = 20 /\ r.second = 30
      /\ x = TextV(T_NotADate) => ~r.ok
      /\ (r.ok /\ pc \in {"loop", "done"}) => r.date \in DOMAIN dates /\ r.hour \in DOMAIN hours

\* a date in the second format, wrapped in whitespace and a null character,
\* was parsed and counted
C8_Witness ==
  /\ pc = "loop"
  /\ \E i \in Photos : records[i].DateTimeOriginal = TextV(Blank \o T_Hyphen \o Nul \o Blank)
  /\ dates = [k \in {<<2023, 5, 1>>} |-> 1]
  /\ hours = [k \in {10} |-> 1]

\* the non-zero samples of a list, as indices
NonZero(s) == {j \in DOMAIN s : s[j] # 0}
Below(s, v) == Cardinality({j \in NonZero(s) : s[j] < v})
Above(s, v) == Cardinality({j \in NonZero(s) : s[j] > v})

\* m is the median of the non-zero samples of s, by rank: the middle value
\* of an odd number of samples, the mean of the two middle values of an even
\* number, 0 of none
IsMedian(m, s) ==
  \E n \in {Cardinality(NonZero(s))} :
    IF n = 0 THEN m = <<0, 1>>
    ELSE IF n % 2 = 1
    THEN \E j \in NonZero(s) :
           /\ Below(s, s[j]) <= (n - 1) \div 2
           /\ Above(s, s[j]) <= (n - 1) \div 2
           /\ m = <<s[j], 1>>
    ELSE \E lo, hi \in NonZero(s) :
           /\ Below(s, s[lo]) <= (n \div 2) - 1 /\ Above(s, s[lo]) <= n \div 2
           /\ Below(s, s[hi]) <= n \div 2 /\ Above(s, s[hi]) <= (n \div 2) - 1
           /\ m[1] * 2 = (s[lo] + s[hi]) * m[2]
           /\ m[2] \in {1, 2}

\* C9: focalLengthMedian is the middle element of the sorted non-zero
\* samples for an odd count, the mean of the two middle elements for an even
\* count and 0 for none, in whatever order the samples were collected:
\* [24, 35, 50] gives 35, [24, 35] gives 29.5, [] gives 0.
C9_Median ==
  /\ \E m \in {FocalLengthMedian(focal_lengths)} :
       /\ IsMedian(m, focal_lengths)
       /\ \A q \in Reorderings(focal_lengths) : FocalLengthMedian(q) = m
       /\ BagOf(focal_lengths) = BagOf(<<24, 35, 50>>) => m = <<35, 1>>
       /\ BagOf(focal_lengths) = BagOf(<<24, 35>>) => m = <<59, 2>>
       /\ focal_lengths = <<>> => m = <<0, 1>>
       /\ pc = "done" => focal_length_median = m

\* the samples 35 and 24, collected in that order, gave the median 29.5
C9_Witness ==
  /\ pc = "done"
  /\ focal_lengths = <<35, 24>>
  /\ focal_length_median = <<59, 2>>

\* C10: dailyAverage is totalPhotos divided by the number of distinct dates
\* of the date FrequencyMap, 0 when there is none, and at least 1 whenever
\* totalPhotos > 0.
C10_DailyAverage ==
  \E days \in {Cardinality(DOMAIN dates)} :
  \E total \in {Cardinality(DatedPhotos)} :
  \E average \in {DailyAverage(dates)} :
    /\ days = 0 => average = <<0, 1>>
    /\ days > 0 =>
         /\ average[2] > 0
         /\ average[1] * days = total * average[2]
    /\ total > 0 => average[1] >= average[2]
    /\ (total = 3 /\ days = 2) => average = <<3, 2>>
    /\ pc = "done" => daily_average = average /\ total_photos = total

\* three dated photos on two distinct dates gave the average 1.5
C10_Witness ==
  /\ pc = "done"
  /\ total_photos = 3
  /\ Cardinality(DOMAIN dates) = 2
  /\ daily_average = <<3, 2>>

\* the samples counted in the bins 1..k
RunningSum(counts, k) == SumSeq(SubSeq(counts, 1, k))

\* C11: the population midpoint of the histogram.  For every non-empty
\* focal-length sample list the samples are binned into 20 bins of equal
\* width that cover them, each sample in one bin; the walk finds a bin, which
\* is the first one whose running sum is at least half the number of
\* samples; its count is not 0; the midpoint is edge_left + ((halfTotal -
\* sumBeforeBin) / binCount) * (edge_right - edge_left) of that bin and lies
\* within [edge_left, edge_right].  For the samples 20, 20, 20, 200, 200, 200
\* the bin is the first one, where the running sum reaches 3.
C11_HistogramMidpoint ==
  (pc = "done" /\ focal_lengths # <<>>) =>
    \E h \in {hist(focal_lengths)} :
    \E total \in {Len(focal_lengths)} :
    \E reached \in {{k \in 1..20 : 2 * RunningSum(h.counts, k) >= total}} :
    \E b \in {split_point.bin} :
      /\ DOMAIN h.counts = 1..20 /\ DOMAIN h.bins = 1..21
      /\ \A k \in 1..20 : FSub(h.bins[k + 1], h.bins[k]) = FSub(h.bins[2], h.bins[1])
      /\ FLess(h.bins[1], h.bins[2])
      /\ \A j \in DOMAIN focal_lengths :
           FLeq(h.bins[1], <<focal_lengths[j], 1>>) /\ FLeq(<<focal_lengths[j], 1>>, h.bins[21])
      /\ RunningSum(h.counts, 20) = total
      /\ reached # {}
      /\ split_point.status = "ok"
      /\ b = Min(reached)
      /\ h.counts[b] # 0
      /\ split_point.v =
           FAdd(h.bins[b],
                FMul(Frac(total - 2 * RunningSum(h.counts, b - 1), 2 * h.counts[b]),
                     FSub(h.bins[b + 1], h.bins[b])))
      /\ FLeq(h.bins[b], split_point.v) /\ FLeq(split_point.v, h.bins[b + 1])
      /\ Sort(focal_lengths) = <<20, 20, 20, 200, 200, 200>> =>
           b = 1 /\ RunningSum(h.counts, 1) = 3 /\ split_point.v = <<29, 1>>

\* the chart of three samples 20 and three samples 200, collected in some
\* order, was drawn with the split point of the first bin
C11_Witness ==
  /\ pc = "done"
  /\ Sort(focal_lengths) = <<20, 20, 20, 200, 200, 200>>
  /\ split_point.status = "ok"
  /\ split_point.bin = 1

\* nothing was produced: no photo was read, the aggregation structures and
\* the statistics are untouched, there is no output directory and no chart
NoOutput ==
  /\ records = <<>>
  /\ Aggregate = EmptyAggregate
  /\ ~output_dir
  /\ saved_charts = {}
  /\ chart_paths = {}
  /\ total_photos = 0 /\ focal_length_median = <<0, 1>> /\ daily_average = <<0, 1>>

\* the SummaryStatistics of the aggregation structures were returned with
\* the paths of all charts
ResultsReturned ==
  /\ pc = "done"
  /\ total_photos = TotalPhotos(dates)
  /\ focal_length_median = FocalLengthMedian(focal_lengths)
  /\ daily_average = DailyAverage(dates)
  /\ chart_paths = CHART_FILES

\* C12: the top-level entry.  For a missing or unreadable folder path
\* analyze_folder returns the textual error at once, with no aggregation and
\* no partial output (no statistics, no chart, no output directory); for
\* every other path the run ends by returning the SummaryStatistics with the
\* aggregation structures, and in no other way; the two outcomes exclude
\* each other.
C12_EntryError ==
  /\ folder_path \in {"missing", "unreadable"} => pc \in {"start", "error"} /\ NoOutput
  /\ folder_path = "readable" => pc \in {"start", "loop", "done"}
  /\ pc = "error" => NoOutput
  /\ pc = "done" => ResultsReturned

\* the values of a tag that are present in the first n photos, in the order
\* of the photos
RECURSIVE PresentSamples(_, _)
PresentSamples(key, n) ==
  IF n = 0 THEN <<>>
  ELSE PresentSamples(key, n - 1) \o
       (IF Present(n, key) THEN <<Normalized(key, records[n][key]).v>> ELSE <<>>)

\* C13: present means counted.  Whenever the normalizer of a field returns a
\* value for a photo, that value is counted exactly once: the focal-length
\* sample list is the list of the present focal lengths of the photos read
\* (0 included), and the ISO, aperture and shutter-speed FrequencyMaps count
\* each present value (a value that rounds to 0.0 included) once per photo;
\* a field adds nothing only when its normalizer returns None.
C13_PresentCounted ==
  pc \in {"loop", "done", "chart_raised"} =>
    /\ focal_lengths = PresentSamples("FocalLength", Len(records))
    /\ iso = BagOf(PresentSamples("ISOSpeedRatings", Len(records)))
    /\ apertures = BagOf(PresentSamples("FNumber", Len(records)))
    /\ shutter_speeds = BagOf(PresentSamples("ExposureTime", Len(records)))

====
